---- MODULE Spec2Model ----
(***************************************************************************)
(* CryptoDrive: the file controller (checkType, checkPassphrase,           *)
(* uploadFiles, getAll, download, delete) and the key controller           *)
(* (createKey, getAllKey) as state machines over the two MongoDB           *)
(* collections they use: the GridFS bucket "uploads" and the Key           *)
(* collection.  A handler runs up to its next await or driver callback in  *)
(* one step, so concurrent requests interleave as they do on the Node      *)
(* event loop; a query and the callback that receives its result are one   *)
(* step, taken when the server evaluates the query.                        *)
(***************************************************************************)
EXTENDS Integers, Sequences, FiniteSets, TLC

(***************************************************************************)
(* Bounds of the model.                                                    *)
(***************************************************************************)
MaxKReq == 3      \* key-controller requests issued in one behaviour
MaxKeys == 2      \* key records that can be created
NumPass == 2      \* distinct passphrases 1..NumPass

MaxFReq == 3      \* file-controller requests issued in one behaviour
MaxUploads == 2   \* upload requests among them
MaxBatch == 2     \* files in one upload request
MaxLen == 2       \* bytes in one uploaded file
MaxByte == 2      \* byte values 0..MaxByte

MaxAll == 3       \* requests to both controllers in one behaviour of SpecAll

Users      == {"A", "B"}
FReqIds    == 1..MaxFReq
Bytes      == 0..MaxByte
Names      == {"report.pdf", "notes.txt"}
Passphrases == 1..NumPass
KeyIds     == 1..MaxKeys
KReqIds    == 1..MaxKReq

\* a request field the client did not send (undefined)
Missing == 0
\* statusCode of an AppError constructed without one (undefined)
NoCode == 0

(***************************************************************************)
(* Errors and the outcome events of a request.                             *)
(***************************************************************************)
\* utils/appError: new AppError(message, statusCode)
AppError(message, statusCode) ==
  [ev |-> "next", name |-> "AppError", message |-> message, code |-> statusCode]

\* a TypeError thrown inside a handler; utils/catchAsync hands it to next()
TypeError(message) ==
  [ev |-> "next", name |-> "TypeError", message |-> message, code |-> NoCode]

\* a mongoose ValidationError thrown by Key.create
ValidationError(message) ==
  [ev |-> "next", name |-> "ValidationError", message |-> message, code |-> NoCode]

\* next() with no argument
NextOk == [ev |-> "next", name |-> "", message |-> "", code |-> NoCode]

\* res.status(code).json({status: ...})
Json(code, status) == [ev |-> "json", name |-> "", message |-> status, code |-> code]

VARIABLES
  keys,     \* the Key collection: a set of key documents
  kreq,     \* the key-controller requests, by request id
  files,    \* uploads.files: the file documents, in insertion order
  chunks,   \* uploads.chunks: the chunk documents
  uploads,  \* the GridFS upload streams in flight
  deletes,  \* the gridfsBucket.delete operations in flight
  nextId,   \* the next ObjectId the driver generates
  freq      \* the file-controller requests, by request id

kvars == <<keys, kreq>>
fvars == <<files, chunks, uploads, deletes, nextId, freq>>
vars == <<keys, kreq, files, chunks, uploads, deletes, nextId, freq>>

(***************************************************************************)
(* The Key model (models/keyModel): the passphrase is stored hashed.       *)
(***************************************************************************)
Hash(p) == 7 * p + 3

correctPassphrase(candidate, stored) == Hash(candidate) = stored

NullKey == [_id |-> 0, user |-> "", passphrase |-> 0, times |-> 0]

NewKey(id, user, passphrase) ==
  [_id |-> id, user |-> user, passphrase |-> Hash(passphrase), times |-> 0]

\* Key.findOne({_id: keyID}): the document, or null
FindOneKey(ks, keyID) ==
  IF \E k \in ks : k._id = keyID
    THEN CHOOSE k \in ks : k._id = keyID
    ELSE NullKey

\* Key.find({user: id})
FindKeysOfUser(ks, id) == {k \in ks : k.user = id}

\* a lost-update variant of IncTimes: the handler writes back the counter it
\* read at line 74 plus one
IncTimesReadModifyWrite(ks, keyID, read) ==
  {IF k._id = keyID THEN [k EXCEPT !.times = read.times + 1] ELSE k : k \in ks}

\* Key.findOneAndUpdate({_id: keyID}, {$inc: {times: 1}}, {upsert: true}):
\* the server applies $inc to the stored document in one step; `read`, the
\* document read at line 74, plays no part in it
IncTimes(ks, keyID, read) ==
  IF \E k \in ks : k._id = keyID
    THEN {IF k._id = keyID THEN [k EXCEPT !.times = k.times + 1] ELSE k : k \in ks}
    ELSE ks \cup {[NullKey EXCEPT !._id = keyID, !.times = 1]}

IdleKReq ==
  [op |-> "", pc |-> "idle", caller |-> "", keyID |-> Missing,
   passphrase |-> Missing, key |-> NullKey, found |-> {}, out |-> <<>>]

\* the field a handler reads from the place `place` of a request that
\* carries the value v in the place `sent`
Field(place, sent, v) == IF place = sent THEN v ELSE Missing

\* lines 62-68: where checkPassphrase reads key and passphrase from
ReadPlace(method) ==
  CASE method = "POST" -> "body"
    [] method = "GET"  -> "headers"
    [] OTHER           -> "nowhere"

\* a variant of CompareBranch that falls through to the update on a mismatch
CompareBranchNoReturn(ok) == "update"

\* lines 76-78: the branch after the comparison
CompareBranch(ok) == IF ok THEN "update" ELSE "done"

(***************************************************************************)
(* checkPassphrase (part_000:60-87).                                       *)
(***************************************************************************)
\* lines 61-72: read the key id and the passphrase; reject if one is missing
CheckPassphraseStart(r, caller, method, sent, keyID, passphrase) ==
  /\ kreq[r].pc = "idle"
  /\ \A q \in KReqIds : q < r => kreq[q].pc # "idle"
  /\ LET k == Field(ReadPlace(method), sent, keyID)
         p == Field(ReadPlace(method), sent, passphrase)
     IN  kreq' = [kreq EXCEPT ![r] =
           IF k = Missing \/ p = Missing
             THEN [@ EXCEPT !.op = "checkPassphrase", !.caller = caller,
                            !.pc = "done",
                            !.out = <<AppError("Please provide a key and passphrase", NoCode)>>]
             ELSE [@ EXCEPT !.op = "checkPassphrase", !.caller = caller,
                            !.keyID = k, !.passphrase = p, !.pc = "findOne"]]
  /\ UNCHANGED <<keys, fvars>>

\* line 74: await Key.findOne({_id: keyID}).select("+passphrase")
CheckPassphraseFindOne(r) ==
  /\ kreq[r].op = "checkPassphrase" /\ kreq[r].pc = "findOne"
  /\ kreq' = [kreq EXCEPT ![r].key = FindOneKey(keys, kreq[r].keyID),
                          ![r].pc = "compare"]
  /\ UNCHANGED <<keys, fvars>>

\* lines 76-78: await key.correctPassphrase(...); key === null throws
CheckPassphraseCompare(r) ==
  /\ kreq[r].op = "checkPassphrase" /\ kreq[r].pc = "compare"
  /\ LET key == kreq[r].key IN
     kreq' = [kreq EXCEPT ![r] =
       IF key = NullKey
         THEN [@ EXCEPT !.pc = "done",
                 !.out = Append(@, TypeError("Cannot read properties of null"))]
         ELSE LET ok == correctPassphrase(kreq[r].passphrase, key.passphrase)
              IN  [@ EXCEPT !.pc = CompareBranch(ok),
                     !.out = IF CompareBranch(ok) = "done"
                               THEN Append(@, AppError("Incorrect key passphrase", NoCode))
                               ELSE @]]
  /\ UNCHANGED <<keys, fvars>>

\* lines 80-84: await Key.findOneAndUpdate(..., {$inc: {times: 1}}, ...)
CheckPassphraseUpdate(r) ==
  /\ kreq[r].op = "checkPassphrase" /\ kreq[r].pc = "update"
  /\ keys' = IncTimes(keys, kreq[r].keyID, kreq[r].key)
  /\ kreq' = [kreq EXCEPT ![r].pc = "next"]
  /\ UNCHANGED fvars

\* line 86: next()
CheckPassphraseNext(r) ==
  /\ kreq[r].op = "checkPassphrase" /\ kreq[r].pc = "next"
  /\ kreq' = [kreq EXCEPT ![r].pc = "done", ![r].out = Append(@, NextOk)]
  /\ UNCHANGED <<keys, fvars>>

(***************************************************************************)
(* createKey (App.js:41-52).                                               *)
(***************************************************************************)
\* lines 42-49: await Key.create({...}); the model validates the confirmation
CreateKeyStart(r, caller, passphrase, passphraseConfirm) ==
  /\ kreq[r].pc = "idle"
  /\ \A q \in KReqIds : q < r => kreq[q].pc # "idle"
  /\ IF passphrase = Missing \/ passphrase # passphraseConfirm
       THEN /\ kreq' = [kreq EXCEPT ![r] = [@ EXCEPT !.op = "createKey",
                          !.caller = caller, !.pc = "done",
                          !.out = <<ValidationError("Key validation failed")>>]]
            /\ UNCHANGED <<keys, fvars>>
       ELSE /\ Cardinality(keys) < MaxKeys
            /\ LET id == Cardinality(keys) + 1 IN
               /\ keys' = keys \cup {NewKey(id, caller, passphrase)}
               /\ kreq' = [kreq EXCEPT ![r] = [@ EXCEPT !.op = "createKey",
                             !.caller = caller, !.keyID = id, !.pc = "respond"]]
               /\ UNCHANGED fvars

\* line 51: res.status(201).json({status: "success"})
CreateKeyRespond(r) ==
  /\ kreq[r].op = "createKey" /\ kreq[r].pc = "respond"
  /\ kreq' = [kreq EXCEPT ![r].pc = "done", ![r].out = Append(@, Json(201, "success"))]
  /\ UNCHANGED <<keys, fvars>>

(***************************************************************************)
(* getAllKey (App.js:54-66).                                               *)
(***************************************************************************)
\* lines 55-57: await Key.find({user: id})
GetAllKeyFind(r, caller) ==
  /\ kreq[r].pc = "idle"
  /\ \A q \in KReqIds : q < r => kreq[q].pc # "idle"
  /\ kreq' = [kreq EXCEPT ![r] = [@ EXCEPT !.op = "getAllKey", !.caller = caller,
                !.found = FindKeysOfUser(keys, caller), !.pc = "respond"]]
  /\ UNCHANGED <<keys, fvars>>

\* lines 59-65: Key.find yields an array, which is never falsy, so the 404
\* branch is not taken; res.status(200).json({key})
GetAllKeyRespond(r) ==
  /\ kreq[r].op = "getAllKey" /\ kreq[r].pc = "respond"
  /\ kreq' = [kreq EXCEPT ![r].pc = "done", ![r].out = Append(@, Json(200, "key"))]
  /\ UNCHANGED <<keys, fvars>>

KInit ==
  /\ keys = {}
  /\ kreq = [r \in KReqIds |-> IdleKReq]

KNext ==
  \E r \in KReqIds :
    \/ \E caller \in Users, method \in {"POST", "GET", "DELETE"},
          sent \in {"body", "headers"},
          keyID \in KeyIds \cup {Missing}, passphrase \in Passphrases \cup {Missing} :
         CheckPassphraseStart(r, caller, method, sent, keyID, passphrase)
    \/ CheckPassphraseFindOne(r)
    \/ CheckPassphraseCompare(r)
    \/ CheckPassphraseUpdate(r)
    \/ CheckPassphraseNext(r)
    \/ \E caller \in Users, p \in Passphrases \cup {Missing}, c \in Passphrases :
         CreateKeyStart(r, caller, p, c)
    \/ CreateKeyRespond(r)
    \/ \E caller \in Users : GetAllKeyFind(r, caller)
    \/ GetAllKeyRespond(r)

(***************************************************************************)
(* The crypto utilities (utils/cryptoFeatures) as an authenticated cipher: *)
(* a nonce cell, the bytes shifted by the key, and a tag over key and      *)
(* plaintext.                                                              *)
(***************************************************************************)
RECURSIVE Sum(_)
Sum(s) == IF s = <<>> THEN 0 ELSE Head(s) + Sum(Tail(s))

Nonce == 500 + MaxByte

Tag(plain, passphrase) == 100 * passphrase + 10 * Len(plain) + (Sum(plain) % 10)

\* encryptStream(data, passphrase)
encryptStream(data, passphrase) ==
  <<Nonce>>
    \o [i \in 1..Len(data) |-> (data[i] + passphrase) % (MaxByte + 1)]
    \o <<Tag(data, passphrase)>>

\* the bytes decryptStream recovers from a buffer before it checks the tag
Plain(buffer, passphrase) ==
  [i \in 1..(Len(buffer) - 2) |->
     (buffer[i + 1] + (MaxByte + 1) - (passphrase % (MaxByte + 1))) % (MaxByte + 1)]

\* whether decryptStream(buffer, passphrase) authenticates
Authentic(buffer, passphrase) ==
  /\ Len(buffer) >= 2
  /\ buffer[1] = Nonce
  /\ \A i \in 2..(Len(buffer) - 1) : buffer[i] \in Bytes
  /\ buffer[Len(buffer)] = Tag(Plain(buffer, passphrase), passphrase)

\* decryptStream(buffer, passphrase), where it authenticates
decryptStream(buffer, passphrase) == Plain(buffer, passphrase)

(***************************************************************************)
(* file-type's fromBuffer and the allow-list.                              *)
(***************************************************************************)
Undefined == "undefined"

\* fromBuffer(file.data).mime, by the leading (magic) byte; a buffer that
\* matches no magic number yields undefined
fromBuffer(data) ==
  IF data = <<>> THEN Undefined
  ELSE CASE data[1] = 1 -> "application/pdf"
         [] data[1] = 2 -> "application/x-msdownload"
         [] OTHER       -> Undefined

\* line 20: process.env.WHITELIST_TYPE.split(", ")
whiteList == {"application/pdf", "image/png"}

\* a variant of SniffedMime that trusts the type the client declared
DeclaredMime(file) == file.mimetype

\* line 48: the type checkType tests, sniffed from the file's bytes
SniffedMime(file) == fromBuffer(file.data)

(***************************************************************************)
(* The GridFS bucket "uploads".                                            *)
(***************************************************************************)
\* the file document openUploadStream(name, options) writes on finish
FileDoc(oid, name, id, mimetype, size, length) ==
  [_id |-> oid, filename |-> name, id |-> id, contentType |-> mimetype,
   length |-> length, chunkSize |-> size]

\* line 143: gridfsBucket.find({"metadata.id": id}).toArray
FindByOwner(fs, id) == LET T(f) == f.id = id IN SelectSeq(fs, T)

\* a variant of FindByOwnerAndName that drops the owner from the query
FindByNameOnly(fs, id, name) == LET T(f) == f.filename = name IN SelectSeq(fs, T)

\* lines 170, 217: gridfsBucket.find({"metadata.id": id, filename: name}).toArray;
\* the query has no sort, so the documents come in insertion order
FindByOwnerAndName(fs, id, name) ==
  LET T(f) == f.id = id /\ f.filename = name IN SelectSeq(fs, T)

NumChunks(length, size) == (length + size - 1) \div size

\* chunk n (from 0) of a buffer written with chunkSizeBytes = size
ChunkData(buffer, size, n) ==
  SubSeq(buffer, n * size + 1,
         IF (n + 1) * size < Len(buffer) THEN (n + 1) * size ELSE Len(buffer))

RECURSIVE Concat(_)
\* Buffer.concat(bufferArray)
Concat(bufferArray) ==
  IF bufferArray = <<>> THEN <<>> ELSE Head(bufferArray) \o Concat(Tail(bufferArray))

IdleFReq ==
  [op |-> "", pc |-> "idle", id |-> "", name |-> "", passphrase |-> Missing,
   batch |-> <<>>, i |-> 0, oids |-> <<>>, found |-> <<>>, fileID |-> 0,
   n |-> 0, bufferArray |-> <<>>, body |-> <<>>, out |-> <<>>, snap |-> <<>>,
   err |-> FALSE]

\* IdleFReq.snap is a history field: the file documents at the time of the
\* request's query, before the query's filter.  IdleFReq.err is the err
\* argument of the query's callback: TRUE when the query failed, and then the
\* callback's files argument is undefined.

FStart(r) ==
  /\ freq[r].pc = "idle"
  /\ \A q \in FReqIds : q < r => freq[q].pc # "idle"

\* res.set({...headers})
SetHeaders(type) == [ev |-> "set", name |-> "", message |-> type, code |-> NoCode]

\* resStream.pipe(res): the response ends with the body
PipeEnd == [ev |-> "end", name |-> "", message |-> "", code |-> 200]

(***************************************************************************)
(* checkType (part_000:40-58), then uploadFiles (part_000:98-132).         *)
(***************************************************************************)
\* lines 41-45: an upload request arrives; without files, req.files.file throws
CheckTypeStart(r, id, passphrase, batch) ==
  /\ FStart(r)
  /\ Cardinality({q \in FReqIds : freq[q].op = "upload"}) < MaxUploads
  /\ freq' = [freq EXCEPT ![r] =
       IF batch = <<>>
         THEN [@ EXCEPT !.op = "upload", !.id = id, !.pc = "done",
                 !.out = <<TypeError("Cannot read properties of null")>>]
         ELSE [@ EXCEPT !.op = "upload", !.id = id, !.passphrase = passphrase,
                 !.batch = batch, !.pc = "checkType", !.i = 1]]
  /\ UNCHANGED <<files, chunks, uploads, deletes, nextId, kvars>>

\* the step of checkType after a file of a type on the allow-list
CheckTypePassed(r) ==
  IF freq[r].i = Len(freq[r].batch)
    THEN [freq[r] EXCEPT !.pc = "uploadFiles", !.i = 1, !.out = Append(@, NextOk)]
    ELSE [freq[r] EXCEPT !.i = @ + 1]

\* lines 47-57: one round of the loop, after await fromBuffer(file.data)
CheckTypeFile(r) ==
  /\ freq[r].op = "upload" /\ freq[r].pc = "checkType"
  /\ LET mime == SniffedMime(freq[r].batch[freq[r].i]) IN
     freq' = [freq EXCEPT ![r] =
       IF mime = Undefined
         THEN [@ EXCEPT !.pc = "done",
                 !.out = Append(@, TypeError("Cannot read properties of undefined"))]
         ELSE IF mime \notin whiteList
           THEN [@ EXCEPT !.pc = "done",
                   !.out = Append(@, AppError("File type not allowed", 415))]
           ELSE CheckTypePassed(r)]
  /\ UNCHANGED <<files, chunks, uploads, deletes, nextId, kvars>>

\* lines 105-131: one round of the loop, after await encryptStream(...): the
\* ciphertext is piped into a new upload stream; after the last round the
\* handler responds
UploadFilesFile(r) ==
  /\ freq[r].op = "upload" /\ freq[r].pc = "uploadFiles"
  /\ LET file == freq[r].batch[freq[r].i]
         storageData == encryptStream(file.data, freq[r].passphrase)
         doc == FileDoc(nextId, file.name, freq[r].id, file.mimetype,
                        Len(file.data), Len(storageData))
     IN  /\ uploads' = uploads \cup {[file |-> doc, data |-> storageData]}
         /\ nextId' = nextId + 1
         /\ freq' = [freq EXCEPT ![r] =
              IF freq[r].i = Len(freq[r].batch)
                THEN [@ EXCEPT !.pc = "done", !.oids = Append(@, nextId),
                        !.out = Append(@, Json(200, "success"))]
                ELSE [@ EXCEPT !.i = @ + 1, !.oids = Append(@, nextId)]]
  /\ UNCHANGED <<files, chunks, deletes, kvars>>

\* the chunk documents of a buffer written with chunkSizeBytes = size
ChunkDocs(oid, buffer, size) ==
  {[files_id |-> oid, n |-> k, data |-> ChunkData(buffer, size, k)] :
     k \in 0..(NumChunks(Len(buffer), size) - 1)}

\* GridFSBucketWriteStream: the buffer written to the stream is cut into chunk
\* documents of chunkSizeBytes; once they are inserted the file document is
\* inserted.  No query reads a chunk before its file document exists, so the
\* inserts are one step.
UploadStreamFinish(u) ==
  /\ u \in uploads
  /\ chunks' = chunks \cup ChunkDocs(u.file._id, u.data, u.file.chunkSize)
  /\ files' = Append(files, u.file)
  /\ uploads' = uploads \ {u}
  /\ UNCHANGED <<deletes, nextId, freq, kvars>>

(***************************************************************************)
(* getAll (part_000:141-156).                                              *)
(***************************************************************************)
\* lines 142-155: the query and its callback
GetAll(r, id) ==
  /\ FStart(r)
  /\ LET found == FindByOwner(files, id) IN
     freq' = [freq EXCEPT ![r] = [@ EXCEPT !.op = "getAll", !.id = id,
               !.pc = "done", !.found = found, !.snap = files,
               !.out = IF found = <<>> THEN <<Json(404, "failed")>>
                                       ELSE <<Json(200, "success")>>]]
  /\ UNCHANGED <<files, chunks, uploads, deletes, nextId, kvars>>

\* lines 143-149: the query fails; the callback gets err and no files, and
\* !files takes the branch of the empty listing
GetAllError(r, id) ==
  /\ FStart(r)
  /\ freq' = [freq EXCEPT ![r] = [@ EXCEPT !.op = "getAll", !.id = id,
                !.pc = "done", !.err = TRUE, !.snap = files,
                !.out = <<Json(404, "failed")>>]]
  /\ UNCHANGED <<files, chunks, uploads, deletes, nextId, kvars>>

(***************************************************************************)
(* download (part_000:165-202).                                            *)
(***************************************************************************)
\* lines 166-193: the query and its callback, up to opening the download
\* stream; the 403 branch calls next and falls through
Download(r, id, name, passphrase) ==
  /\ FStart(r)
  /\ LET found == FindByOwnerAndName(files, id, name) IN
     freq' = [freq EXCEPT ![r] =
       IF found = <<>>
         THEN [@ EXCEPT !.op = "download", !.id = id, !.name = name,
                 !.passphrase = passphrase, !.pc = "done", !.snap = files,
                 !.out = <<AppError("Not found!", 404)>>]
         ELSE [@ EXCEPT !.op = "download", !.id = id, !.name = name,
                 !.passphrase = passphrase, !.found = found, !.snap = files,
                 !.fileID = found[1]._id, !.pc = "open",
                 !.out = (IF found[1].id # id
                            THEN <<AppError("Permission denied!", 403)>>
                            ELSE <<>>)
                         \o <<SetHeaders(found[1].contentType)>>]]
  /\ UNCHANGED <<files, chunks, uploads, deletes, nextId, kvars>>

\* lines 171-174: the query fails; the callback gets err and no files, and
\* !files takes the branch of the missing object
DownloadError(r, id, name, passphrase) ==
  /\ FStart(r)
  /\ freq' = [freq EXCEPT ![r] = [@ EXCEPT !.op = "download", !.id = id,
                !.name = name, !.passphrase = passphrase, !.pc = "done",
                !.err = TRUE, !.snap = files,
                !.out = <<AppError("Not found!", 404)>>]]
  /\ UNCHANGED <<files, chunks, uploads, deletes, nextId, kvars>>

\* GridFSBucketReadStream: look the file document up by _id; a missing
\* document is an 'error' event, which has no listener
DownloadStreamOpen(r) ==
  /\ freq[r].op = "download" /\ freq[r].pc = "open"
  /\ LET T(f) == f._id = freq[r].fileID
         docs == SelectSeq(files, T)
     IN  freq' = [freq EXCEPT ![r] =
           IF docs = <<>> THEN [@ EXCEPT !.pc = "uncaught"]
           ELSE [@ EXCEPT !.pc = "data", !.n = 0]]
  /\ UNCHANGED <<files, chunks, uploads, deletes, nextId, kvars>>

\* lines 191-193: the next chunk arrives and is pushed on bufferArray; a
\* missing chunk is an 'error' event, which has no listener
DownloadStreamData(r) ==
  /\ freq[r].op = "download" /\ freq[r].pc = "data"
  /\ LET doc == freq[r].found[1]
         cs == {c \in chunks : c.files_id = freq[r].fileID /\ c.n = freq[r].n}
     IN  freq' = [freq EXCEPT ![r] =
           IF cs = {} THEN [@ EXCEPT !.pc = "uncaught"]
           ELSE [@ EXCEPT !.bufferArray = Append(@, (CHOOSE c \in cs : TRUE).data),
                   !.n = @ + 1,
                   !.pc = IF freq[r].n + 1 = NumChunks(doc.length, doc.chunkSize)
                            THEN "end" ELSE "data"]]
  /\ UNCHANGED <<files, chunks, uploads, deletes, nextId, kvars>>

\* lines 195-200: concatenate, decrypt and send; a failed decryption rejects
\* the listener's promise, which nothing handles
DownloadStreamEnd(r) ==
  /\ freq[r].op = "download" /\ freq[r].pc = "end"
  /\ LET buffer == Concat(freq[r].bufferArray) IN
     freq' = [freq EXCEPT ![r] =
       IF Authentic(buffer, freq[r].passphrase)
         THEN [@ EXCEPT !.pc = "done",
                 !.body = decryptStream(buffer, freq[r].passphrase),
                 !.out = Append(@, PipeEnd)]
         ELSE [@ EXCEPT !.pc = "unhandledRejection"]]
  /\ UNCHANGED <<files, chunks, uploads, deletes, nextId, kvars>>

(***************************************************************************)
(* delete (part_000:211-234).                                              *)
(***************************************************************************)
\* lines 212-233: the query and its callback; gridfsBucket.delete(fileID) is
\* started and not awaited
Delete(r, id, name) ==
  /\ FStart(r)
  /\ LET found == FindByOwnerAndName(files, id, name) IN
     IF found = <<>>
       THEN /\ freq' = [freq EXCEPT ![r] = [@ EXCEPT !.op = "delete", !.id = id,
                          !.name = name, !.pc = "done", !.snap = files,
                          !.out = <<AppError("Not found!", 404)>>]]
            /\ UNCHANGED deletes
       ELSE IF found[1].id # id
         THEN /\ freq' = [freq EXCEPT ![r] = [@ EXCEPT !.op = "delete", !.id = id,
                            !.name = name, !.found = found, !.pc = "done",
                            !.snap = files,
                            !.out = <<AppError("Permission denied!", 403)>>]]
              /\ UNCHANGED deletes
         ELSE /\ freq' = [freq EXCEPT ![r] = [@ EXCEPT !.op = "delete", !.id = id,
                            !.name = name, !.found = found,
                            !.fileID = found[1]._id, !.pc = "done",
                            !.snap = files,
                            !.out = <<Json(200, "success")>>]]
              /\ deletes' = deletes \cup {[fileID |-> found[1]._id, stage |-> "files"]}
  /\ UNCHANGED <<files, chunks, uploads, nextId, kvars>>

\* GridFSBucket.delete: remove the file document
GridFSDeleteFile(d) ==
  /\ d \in deletes /\ d.stage = "files"
  /\ LET T(f) == f._id # d.fileID IN files' = SelectSeq(files, T)
  /\ deletes' = (deletes \ {d}) \cup {[d EXCEPT !.stage = "chunks"]}
  /\ UNCHANGED <<chunks, uploads, nextId, freq, kvars>>

\* GridFSBucket.delete: remove the file's chunk documents
GridFSDeleteChunks(d) ==
  /\ d \in deletes /\ d.stage = "chunks"
  /\ chunks' = {c \in chunks : c.files_id # d.fileID}
  /\ deletes' = deletes \ {d}
  /\ UNCHANGED <<files, uploads, nextId, freq, kvars>>

(***************************************************************************)
(* The inputs of the requests, and the specifications.                     *)
(***************************************************************************)
Datas == UNION {[1..n -> Bytes] : n \in 1..MaxLen}

\* the files an upload request can carry: name, bytes, declared MIME type
FileInputs(names, datas) ==
  {[name |-> nm, data |-> d, mimetype |-> "application/pdf"] : nm \in names, d \in datas}

Batches(inputs, max) == UNION {[1..n -> inputs] : n \in 0..max}

FInit ==
  /\ files = <<>>
  /\ chunks = {}
  /\ uploads = {}
  /\ deletes = {}
  /\ nextId = 1
  /\ freq = [r \in FReqIds |-> IdleFReq]

Init == KInit /\ FInit

\* the plaintexts of the store's behaviours: one per length
StoreDatas == {[i \in 1..n |-> 1] : n \in 1..MaxLen}

FNext ==
  \/ \E r \in FReqIds :
       \/ \E id \in Users, passphrase \in Passphrases,
             batch \in Batches(FileInputs(Names, StoreDatas), 1) :
            CheckTypeStart(r, id, passphrase, batch)
       \/ CheckTypeFile(r)
       \/ UploadFilesFile(r)
       \/ \E id \in Users : GetAll(r, id)
       \/ \E id \in Users : GetAllError(r, id)
       \/ \E id \in Users, name \in Names, passphrase \in Passphrases :
            Download(r, id, name, passphrase)
       \/ \E id \in Users, name \in Names, passphrase \in Passphrases :
            DownloadError(r, id, name, passphrase)
       \/ DownloadStreamOpen(r)
       \/ DownloadStreamData(r)
       \/ DownloadStreamEnd(r)
       \/ \E id \in Users, name \in Names : Delete(r, id, name)
  \/ \E u \in uploads : UploadStreamFinish(u)
  \/ \E d \in deletes : GridFSDeleteFile(d)
  \/ \E d \in deletes : GridFSDeleteChunks(d)

Spec == Init /\ [][FNext]_vars

\* the plaintexts of the upload gate's behaviours: one per leading byte
GateDatas == {d \in Datas : Len(d) = 1}

\* the upload gate: one owner's batches of up to MaxBatch files of every
\* sniffed type, and listings
GNext ==
  \/ \E r \in FReqIds :
       \/ \E batch \in Batches(FileInputs(Names, GateDatas), MaxBatch) :
            CheckTypeStart(r, "A", 1, batch)
       \/ CheckTypeFile(r)
       \/ UploadFilesFile(r)
       \/ GetAll(r, "A")
       \/ GetAllError(r, "A")
  \/ \E u \in uploads : UploadStreamFinish(u)

SpecGate == Init /\ [][GNext]_vars

SpecKey == Init /\ [][KNext]_vars

\* the types a client can declare for a file
DeclaredMimes == {"application/pdf", "application/x-msdownload"}

\* the files an upload request can carry, with every declared MIME type
DeclaredInputs(names, datas, mimes) ==
  {[name |-> nm, data |-> d, mimetype |-> mt] : nm \in names, d \in datas, mt \in mimes}

\* checkType alone: one owner's batches of up to MaxBatch files of every
\* sniffed type under every name and declared type
SNext ==
  \E r \in FReqIds :
    \/ \E batch \in Batches(DeclaredInputs(Names, GateDatas, DeclaredMimes), MaxBatch) :
         CheckTypeStart(r, "A", 1, batch)
    \/ CheckTypeFile(r)

SpecSniff == Init /\ [][SNext]_vars

\* the requests issued so far, to both controllers
Issued ==
  Cardinality({r \in FReqIds : freq[r].pc # "idle"})
    + Cardinality({r \in KReqIds : kreq[r].pc # "idle"})

CanIssue == Issued < MaxAll

\* every handler of both controllers: up to MaxAll requests in all; the file
\* requests are about one name, with batches of up to MaxBatch files of every
\* sniffed type, and the key requests about the first key
ANext ==
  \/ \E r \in FReqIds :
       \/ /\ CanIssue
          /\ \E id \in Users, batch \in Batches(FileInputs({"report.pdf"}, GateDatas), MaxBatch) :
               CheckTypeStart(r, id, 1, batch)
       \/ CheckTypeFile(r)
       \/ UploadFilesFile(r)
       \/ CanIssue /\ \E id \in Users : GetAll(r, id)
       \/ CanIssue /\ \E id \in Users : GetAllError(r, id)
       \/ /\ CanIssue
          /\ \E id \in Users, passphrase \in Passphrases :
               Download(r, id, "report.pdf", passphrase)
       \/ CanIssue /\ \E id \in Users : DownloadError(r, id, "report.pdf", 1)
       \/ DownloadStreamOpen(r)
       \/ DownloadStreamData(r)
       \/ DownloadStreamEnd(r)
       \/ CanIssue /\ \E id \in Users : Delete(r, id, "report.pdf")
  \/ \E u \in uploads : UploadStreamFinish(u)
  \/ \E d \in deletes : GridFSDeleteFile(d)
  \/ \E d \in deletes : GridFSDeleteChunks(d)
  \/ \E r \in KReqIds :
       \/ /\ CanIssue
          /\ \E caller \in Users, sent \in {"body", "headers"}, passphrase \in Passphrases :
               CheckPassphraseStart(r, caller, "POST", sent, 1, passphrase)
       \/ CheckPassphraseFindOne(r)
       \/ CheckPassphraseCompare(r)
       \/ CheckPassphraseUpdate(r)
       \/ CheckPassphraseNext(r)
       \/ /\ CanIssue
          /\ \E caller \in Users, p \in Passphrases \cup {Missing} :
               CreateKeyStart(r, caller, p, 1)
       \/ CreateKeyRespond(r)
       \/ CanIssue /\ \E caller \in Users : GetAllKeyFind(r, caller)
       \/ GetAllKeyRespond(r)

SpecAll == Init /\ [][ANext]_vars

(***************************************************************************)
(* Properties of the key controller.                                       *)
(***************************************************************************)
\* the usage counter of key id (0 while the key does not exist)
Times(ks, id) == FindOneKey(ks, id).times

IsCheck(r) == kreq[r].op = "checkPassphrase"

Succeeded(r) == kreq[r].pc = "done" /\ kreq[r].out = <<NextOk>>

Failed(r) == kreq[r].pc = "done" /\ kreq[r].out # <<NextOk>>

ChecksOf(id) == {r \in KReqIds : IsCheck(r) /\ kreq[r].keyID = id}

\* C8: once every checkPassphrase request for a key has completed, the key's
\* counter equals its initial value (that of a new key) plus the number of
\* those requests that succeeded, whatever the interleaving of their find,
\* compare and increment steps.
C8_NoLostIncrements ==
  \A k \in keys :
    (\A r \in ChecksOf(k._id) : kreq[r].pc = "done")
      => k.times = NewKey(k._id, k.user, 1).times
                     + Cardinality({r \in ChecksOf(k._id) : Succeeded(r)})

\* C8 witness: two requests for one key both read the counter before either
\* incremented it, both succeeded, and the counter is 2.
C8_Witness ==
  \E k \in keys : \E r1, r2 \in ChecksOf(k._id) :
    /\ r1 # r2 /\ Succeeded(r1) /\ Succeeded(r2)
    /\ kreq[r1].key.times = 0 /\ kreq[r2].key.times = 0
    /\ k.times = 2

\* C9: every step that changes a key's counter raises it by exactly 1, is the
\* increment step of a checkPassphrase request naming that key whose
\* passphrase matched, and changes no other key's counter; the request that
\* took that step ends with next() and no error, and a request that has
\* handed an error to next() takes no further step.
C9_CounterOnlyOnSuccess ==
  [][ /\ \A id \in KeyIds :
           Times(keys', id) # Times(keys, id) =>
             /\ Times(keys', id) = Times(keys, id) + 1
             /\ \A other \in KeyIds \ {id} : Times(keys', other) = Times(keys, other)
             /\ \E r \in ChecksOf(id) :
                  /\ kreq[r].pc = "update" /\ kreq'[r].pc = "next"
                  /\ kreq[r].out = <<>>
                  /\ correctPassphrase(kreq[r].passphrase,
                                       FindOneKey(keys, id).passphrase)
      /\ \A r \in KReqIds :
           /\ (IsCheck(r) /\ kreq[r].out # <<>> /\ kreq[r].out # <<NextOk>>)
                => kreq'[r] = kreq[r]
           /\ (IsCheck(r) /\ kreq[r].pc = "next")
                => kreq'[r] = kreq[r] \/ kreq'[r].out = <<NextOk>>
    ]_vars

\* C9 witness: a request failed on a wrong passphrase for a key that another
\* request verified, and the counter counts the one success only.
C9_Witness ==
  \E k \in keys : \E r1, r2 \in ChecksOf(k._id) :
    /\ Succeeded(r1)
    /\ Failed(r2) /\ kreq[r2].out[1].message = "Incorrect key passphrase"
    /\ k.times = 1

\* C10: a checkPassphrase request naming a key owned by another identity
\* never reaches the increment or next(), and ends with ForbiddenError (403).
C10_ForeignKeyForbidden ==
  \A r \in KReqIds :
    (IsCheck(r) /\ kreq[r].key # NullKey /\ kreq[r].key.user # kreq[r].caller)
      => /\ kreq[r].pc \notin {"update", "next"}
         /\ kreq[r].pc = "done" =>
              /\ Len(kreq[r].out) = 1
              /\ kreq[r].out[1].name = "AppError" /\ kreq[r].out[1].code = 403

\* the request read both fields and its findOne matched no key record
UnknownKey(r) ==
  IsCheck(r) /\ kreq[r].keyID # Missing /\ kreq[r].key = NullKey
    /\ kreq[r].pc \notin {"findOne", "compare"}

\* C11: a checkPassphrase request whose key id matches no key record ends
\* with the single outcome next(NotFoundError), an operational error with
\* code 404.
C11_UnknownKeyNotFound ==
  \A r \in KReqIds :
    UnknownKey(r)
      => /\ Len(kreq[r].out) = 1
         /\ kreq[r].out[1].name = "AppError" /\ kreq[r].out[1].code = 404

\* the request lacked the key id or the passphrase
MissingField(r) == IsCheck(r) /\ kreq[r].pc = "done" /\ kreq[r].keyID = Missing

\* the request's passphrase did not match the key record it read
WrongPassphrase(r) ==
  /\ IsCheck(r) /\ kreq[r].pc = "done" /\ kreq[r].key # NullKey
  /\ ~correctPassphrase(kreq[r].passphrase, kreq[r].key.passphrase)

\* C14: the error a checkPassphrase request hands to next() has code 400 when
\* the key id or the passphrase is missing and code 401 when the passphrase is
\* wrong.
C14_DistinctFailureCodes ==
  \A r \in KReqIds :
    /\ MissingField(r) => (Len(kreq[r].out) = 1 /\ kreq[r].out[1].code = 400)
    /\ WrongPassphrase(r) => (Len(kreq[r].out) = 1 /\ kreq[r].out[1].code = 401)

(***************************************************************************)
(* Properties of the file controller.                                      *)
(***************************************************************************)
IsOp(r, op) == freq[r].op = op

\* the _id values of a sequence of file documents
Ids(fs) == {fs[i]._id : i \in DOMAIN fs}

\* the stored owner of the file document oid in fs ("" if there is none)
OwnerOf(fs, oid) ==
  IF oid \in Ids(fs) THEN (CHOOSE f \in {fs[i] : i \in DOMAIN fs} : f._id = oid).id
  ELSE ""

\* the files of upload request u named name: their places in the batch
Named(u, name) == {j \in DOMAIN freq[u].batch : freq[u].batch[j].name = name}

\* C1: an upload request with a file whose sniffed type is outside the
\* allow-list ends checkType with the single outcome next(AppError 415), and
\* opens no upload stream.
C1_BatchRejectedWith415 ==
  \A r \in FReqIds :
    ( /\ IsOp(r, "upload") /\ freq[r].pc # "checkType"
      /\ \E j \in DOMAIN freq[r].batch :
           fromBuffer(freq[r].batch[j].data) \notin whiteList )
      => /\ freq[r].out = <<AppError("File type not allowed", 415)>>
         /\ freq[r].oids = <<>>

\* C2: a listing holds only documents whose stored owner is the caller; the
\* object a download reads or a delete removes has the caller as its stored
\* owner; every delete operation in flight was started by the object's owner.
C2_OwnerIsolation ==
  /\ \A r \in FReqIds :
       IsOp(r, "getAll") =>
         \A i \in DOMAIN freq[r].found : freq[r].found[i].id = freq[r].id
  /\ \A r \in FReqIds :
       ((IsOp(r, "download") \/ IsOp(r, "delete")) /\ freq[r].fileID # 0)
         => OwnerOf(freq[r].snap, freq[r].fileID) = freq[r].id
  /\ \A r \in FReqIds :
       (IsOp(r, "download") /\ freq[r].fileID = 0)
         => freq[r].body = <<>> /\ freq[r].bufferArray = <<>>
  /\ \A d \in deletes :
       \E r \in FReqIds :
         /\ IsOp(r, "delete") /\ freq[r].fileID = d.fileID
         /\ OwnerOf(freq[r].snap, d.fileID) = freq[r].id

\* C2 witness: while another identity had an object of the same name stored
\* first, a download delivered the caller's own object.
C2_Witness ==
  \E r \in FReqIds :
    /\ IsOp(r, "download") /\ freq[r].pc = "done" /\ freq[r].body # <<>>
    /\ freq[r].snap[1].filename = freq[r].name
    /\ freq[r].snap[1].id # freq[r].id

\* at the time of r's query the name was stored for other identities only
ForeignOnly(r) ==
  /\ \E i \in DOMAIN freq[r].snap :
       freq[r].snap[i].filename = freq[r].name /\ freq[r].snap[i].id # freq[r].id
  /\ \A i \in DOMAIN freq[r].snap :
       freq[r].snap[i].filename = freq[r].name => freq[r].snap[i].id # freq[r].id

\* C3: a download, its query answered, of a name stored only for another
\* identity ends with the single outcome next(AppError 403), with no header
\* and no byte sent.
C3_ForeignDownloadForbidden ==
  \A r \in FReqIds :
    (IsOp(r, "download") /\ ~freq[r].err /\ ForeignOnly(r))
      => /\ freq[r].out = <<AppError("Permission denied!", 403)>>
         /\ freq[r].body = <<>>

\* the uploads (request, place in the batch) by r's caller under r's name
\* that were persisted at the time of r's query
Had(r) ==
  {uj \in FReqIds \X (1..MaxBatch) :
     /\ IsOp(uj[1], "upload") /\ freq[uj[1]].id = freq[r].id
     /\ uj[2] \in Named(uj[1], freq[r].name)
     /\ uj[2] <= Len(freq[uj[1]].oids)
     /\ freq[uj[1]].oids[uj[2]] \in Ids(freq[r].snap)}

Ended(r) == freq[r].pc \in {"done", "uncaught", "unhandledRejection"}

\* C4: a download that has ended, its query answered, by an owner who issued
\* no delete of that name, delivered exactly the plaintext of every upload of
\* that name by that owner with the download's passphrase that was persisted
\* when the download was issued.
C4_RoundTrip ==
  \A r \in FReqIds :
    ( /\ IsOp(r, "download") /\ Ended(r) /\ ~freq[r].err
      /\ \A q \in FReqIds :
           ~(IsOp(q, "delete") /\ freq[q].id = freq[r].id /\ freq[q].name = freq[r].name) )
      => \A uj \in Had(r) :
           freq[uj[1]].passphrase = freq[r].passphrase
             => /\ freq[r].pc = "done"
                /\ freq[r].body = freq[uj[1]].batch[uj[2]].data

\* C5: a download whose stored ciphertext does not authenticate under the
\* request's passphrase has handed an AuthenticationError (401) to next()
\* and has written no plaintext.
C5_WrongPassphraseSurfaced ==
  \A r \in FReqIds :
    ( /\ IsOp(r, "download") /\ Ended(r) /\ freq[r].pc # "uncaught"
      /\ freq[r].fileID # 0
      /\ ~Authentic(Concat(freq[r].bufferArray), freq[r].passphrase) )
      => /\ freq[r].body = <<>>
         /\ \E i \in DOMAIN freq[r].out :
              /\ freq[r].out[i].ev = "next"
              /\ freq[r].out[i].name = "AppError" /\ freq[r].out[i].code = 401

\* a delete of (owner, name) reported success before download r was issued,
\* every upload of that name by that owner was persisted before the delete,
\* and none was issued after it
AfterDelete(r) ==
  \E q \in FReqIds :
    /\ q < r /\ IsOp(q, "delete")
    /\ freq[q].id = freq[r].id /\ freq[q].name = freq[r].name
    /\ freq[q].out = <<Json(200, "success")>>
    /\ \A u \in FReqIds :
         (IsOp(u, "upload") /\ freq[u].id = freq[r].id /\ Named(u, freq[r].name) # {})
           => /\ u < q
              /\ \A j \in Named(u, freq[r].name) :
                   j <= Len(freq[u].oids) /\ freq[u].oids[j] \in Ids(freq[q].snap)

\* C6: a download issued after a delete of the same (owner, name) reported
\* success, with no upload of that name in between, fails with NotFoundError.
C6_NotFoundAfterDelete ==
  \A r \in FReqIds :
    (IsOp(r, "download") /\ AfterDelete(r))
      => freq[r].out = <<AppError("Not found!", 404)>>

\* checkType has decided upload request r
Decided(r) == IsOp(r, "upload") /\ freq[r].pc # "checkType"

\* the batches of r1 and r2 have pairwise equal bytes
SameBytes(r1, r2) ==
  /\ Len(freq[r1].batch) = Len(freq[r2].batch)
  /\ \A j \in DOMAIN freq[r1].batch : freq[r1].batch[j].data = freq[r2].batch[j].data

\* C12: two upload requests whose batches have pairwise equal bytes get the
\* same outcome from checkType, whatever names and MIME types they declare.
C12_DecisionByBytesOnly ==
  \A r1, r2 \in FReqIds :
    (Decided(r1) /\ Decided(r2) /\ SameBytes(r1, r2))
      => freq[r1].out[1] = freq[r2].out[1]

\* C12 witness: two batches of the same allowed bytes, declared under
\* different names and with different MIME types, one of them a disallowed
\* type, were both passed on.
C12_Witness ==
  \E r1, r2 \in FReqIds :
    /\ Decided(r1) /\ Decided(r2) /\ SameBytes(r1, r2)
    /\ \E j \in DOMAIN freq[r1].batch :
         /\ freq[r1].batch[j].mimetype \in whiteList
         /\ freq[r2].batch[j].mimetype \notin whiteList
         /\ freq[r1].batch[j].name # freq[r2].batch[j].name
    /\ freq[r1].out = <<NextOk>> /\ freq[r2].out = <<NextOk>>

\* C7: the store holds at most one object per (owner, filename).
C7_OneObjectPerOwnerAndName ==
  \A i, j \in DOMAIN files :
    (files[i].id = files[j].id /\ files[i].filename = files[j].filename) => i = j

\* C13: a listing for an owner without objects and a listing whose query
\* failed end with different outcomes.
C13_EmptyDistinctFromError ==
  \A r1, r2 \in FReqIds :
    ( /\ IsOp(r1, "getAll") /\ ~freq[r1].err /\ freq[r1].found = <<>>
      /\ IsOp(r2, "getAll") /\ freq[r2].err )
      => freq[r1].out # freq[r2].out

\* the number of chunks of the object download r reads
ChunksOf(r) == NumChunks(freq[r].found[1].length, freq[r].found[1].chunkSize)

\* C15: a download of an object of more than one chunk never holds all of the
\* object's chunks: the number of chunks in bufferArray stays below the
\* number of chunks of the object.
C15_ChunksHeldBounded ==
  \A r \in FReqIds :
    (IsOp(r, "download") /\ freq[r].fileID # 0 /\ ChunksOf(r) > 1)
      => Len(freq[r].bufferArray) < ChunksOf(r)

\* request r has ended its response or handed an error to next()
Completed(r) ==
  \E i \in DOMAIN freq[r].out :
    \/ freq[r].out[i].ev = "end"
    \/ freq[r].out[i].ev = "next" /\ freq[r].out[i].name # ""

\* C18: a download request with no step left to take has completed: it has
\* ended the response with the plaintext or handed an error to next().  (A
\* request that has a step left takes it under fair scheduling; one that has
\* none and has not completed stays pending forever.)
C18_DownloadCompletes ==
  \A r \in FReqIds :
    (IsOp(r, "download") /\ Ended(r)) => Completed(r)

\* the events of out that satisfy Test
Events(out, Test(_)) == {i \in DOMAIN out : Test(out[i])}

IsNext(e) == e.ev = "next"

IsNextError(e) == e.ev = "next" /\ e.name # ""

\* res.json and the end of a piped body each send a response
IsSend(e) == e.ev \in {"json", "end"}

\* res.set starts a response
IsResponse(e) == e.ev \in {"json", "set", "end"}

\* out hands an error to next() or responds, not both; it calls next() at
\* most once and sends at most one response
OneOutcome(out) ==
  /\ Cardinality(Events(out, IsNext)) <= 1
  /\ Cardinality(Events(out, IsSend)) <= 1
  /\ Events(out, IsNextError) = {} \/ Events(out, IsResponse) = {}

\* C19: no request of either controller both hands an error to next() and
\* sends or starts a response, calls next() more than once, or responds more
\* than once.
C19_AtMostOneOutcome ==
  /\ \A r \in FReqIds : OneOutcome(freq[r].out)
  /\ \A r \in KReqIds : OneOutcome(kreq[r].out)

\* C19 witness: a download passed the ownership test of line 175 and sent
\* the body as its only outcome, a batch whose first file was refused ended
\* checkType with the one next(error), and a getAllKey request passed the
\* test of line 59 and responded.
C19_Witness ==
  /\ \E r \in FReqIds :
       /\ IsOp(r, "download") /\ freq[r].pc = "done" /\ freq[r].body # <<>>
       /\ freq[r].out = <<SetHeaders(freq[r].found[1].contentType), PipeEnd>>
  /\ \E r \in KReqIds :
       kreq[r].op = "getAllKey" /\ kreq[r].out = <<Json(200, "key")>>

\* uploadFiles has sent its success response for request r
SentSuccess(r) ==
  IsOp(r, "upload") /\ \E i \in DOMAIN freq[r].out : freq[r].out[i] = Json(200, "success")

\* C16: once uploadFiles has sent its success response, the file document of
\* every file of the batch is in the store, where a listing finds it.
C16_SuccessMeansPersisted ==
  \A r \in FReqIds :
    SentSuccess(r)
      => /\ Len(freq[r].oids) = Len(freq[r].batch)
         /\ \A j \in DOMAIN freq[r].oids :
              /\ freq[r].oids[j] \in Ids(files)
              /\ freq[r].oids[j] \in Ids(FindByOwner(files, freq[r].id))

\* C17: an upload request with a file whose bytes match no magic number ends
\* checkType with the single outcome next(AppError 415 'File type not
\* allowed'), the outcome of a recognised type outside the allow-list.
C17_UnknownTypeRejectedWith415 ==
  \A r \in FReqIds :
    ( /\ Decided(r)
      /\ \E j \in DOMAIN freq[r].batch : SniffedMime(freq[r].batch[j]) = Undefined )
      => freq[r].out = <<AppError("File type not allowed", 415)>>

====
